---- MODULE Spec2Model ----
(***************************************************************************)
(* A model of streamlit_app.py: the Andok's - Bulacan dashboards script.   *)
(*                                                                         *)
(* One run of the script is a sequence of steps (pc): the six cached       *)
(* loaders, the column assignments that follow them, and the dashboard     *)
(* chosen by the sidebar radio.  A widget interaction reruns the script    *)
(* from the top; st.cache_data keeps loader results across reruns.         *)
(*                                                                         *)
(* Numbers.  Scores are integers in units of 10^-8 (the SLD thresholds are *)
(* the source literals cut to 8 decimals).  Sales are integers; the two    *)
(* percentile cutpoints are kept in quarters (4 * p25, 4 * p75), which is  *)
(* exact for numpy's linear interpolation at q = 25 and q = 75.            *)
(* NaN is a value outside both domains.                                    *)
(***************************************************************************)
EXTENDS Integers, Sequences, FiniteSets, TLC

VARIABLES
    files,              \* the six files on disk, by loader name
    edits,              \* the files somebody may replace between two reruns
    cache,              \* st.cache_data: loader name -> entry or NoEntry
    reads,              \* history: the reads of each loader's file, by outcome
    firstResult,        \* history: what the first returning load returned
    received,           \* history: what each loader call returned in this run
    executed,           \* history: the loaders whose body ran in this run
    run,                \* number of the current script run
    pc,                 \* position of the current run
    gdf_barangays, df_competitors, df_branches, andoks_icon_spec,
    gdf_muni, df_monthly_sales,                 \* the script's globals
    widgets,            \* the widget values this run used
    view,               \* what the dashboard computed: layers, tables, joined
    out,                \* the elements rendered by this run, in order
    colorLog            \* history: every classifier call made so far

vars == <<files, edits, cache, reads, firstResult, received, executed, run, pc,
          gdf_barangays, df_competitors, df_branches, andoks_icon_spec,
          gdf_muni, df_monthly_sales, widgets, view, out, colorLog>>

-----------------------------------------------------------------------------
(* Bounds of the model *)

MaxRuns == 3            \* script runs per behaviour
Delta == 2              \* scores tried on each side of every SLD threshold
MaxMonth == 2           \* months of the slider (1 .. 12) that are tried

-----------------------------------------------------------------------------
(* Values *)

NaN == -1
None == -2

\* The None that load_andoks_icon returns (a dictionary otherwise)
NoIcon == [none |-> TRUE]
IsNone(x) == "none" \in DOMAIN x

IsNaN(x) == x = NaN

\* A raw cell of a file: a number, an empty cell, or text.
Num(n) == [t |-> "num", v |-> n]
Blank == [t |-> "none"]
Text == [t |-> "text"]

\* pd.to_numeric(errors="coerce")
to_numeric(c) == IF c.t = "num" THEN c.v ELSE NaN

\* A table: its columns and its rows in order.  pd.DataFrame() has neither.
EmptyFrame == [cols |-> {}, rows |-> <<>>]
IsEmpty(t) == t.cols = {} \/ Len(t.rows) = 0

Range(s) == {s[i] : i \in 1..Len(s)}

\* str.upper() and str.strip() on a name kept as a sequence of characters
UpperChar(c) == CASE c = "a" -> "A" [] c = "b" -> "B" [] OTHER -> c
Upper(s) == [i \in 1..Len(s) |-> UpperChar(s[i])]

RECURSIVE LStrip(_)
LStrip(s) == IF s # <<>> /\ Head(s) = " " THEN LStrip(Tail(s)) ELSE s
RECURSIVE RStrip(_)
RStrip(s) == IF s # <<>> /\ s[Len(s)] = " "
             THEN RStrip(SubSeq(s, 1, Len(s) - 1)) ELSE s
Strip(s) == RStrip(LStrip(s))
\* the clean name without str.strip()
CleanUpperOnly(s) == Upper(s)
Clean(s) == Strip(Upper(s))

-----------------------------------------------------------------------------
(* Rendered elements and loader results *)

Elem(k, w) == [kind |-> k, what |-> w]

Return(v, msgs) == [status |-> "return", value |-> v, msgs |-> msgs]
Stop(msgs) == [status |-> "stop", value |-> EmptyFrame, msgs |-> msgs]
Raise(w) == [status |-> "raise", value |-> EmptyFrame,
             msgs |-> <<Elem("exception", w)>>]

Loaders == {"load_barangays", "load_competitors_from_xlsx", "load_andoks_branches",
            "load_andoks_icon", "load_municipalities", "load_monthly_sales"}

-----------------------------------------------------------------------------
(* The loaders.  A file is [kind, rows]: kind "missing" (no such path),     *)
(* "unreadable" (the reader raises), "nocrs" (a shapefile without a CRS:    *)
(* to_crs raises), "nocol" (a required column is absent) or "ok".           *)

BarangayRow(r) == [barangay_name |-> r.ADM4_EN, citymun_name |-> r.ADM3_EN,
                   score |-> to_numeric(r.mean_0)]

load_barangays(f) ==
    IF f.kind \in {"missing", "unreadable"} THEN Raise("read_file")
    ELSE IF f.kind = "nocrs" THEN Raise("to_crs")
    ELSE IF f.kind = "nocol"
    THEN Stop(<<Elem("error", "Missing column in barangay shapefile")>>)
    ELSE LET kept == SelectSeq(f.rows, LAMBDA r : r.geometry)
         IN Return([cols |-> {"barangay_name", "citymun_name", "score", "geometry"},
                    rows |-> [i \in 1..Len(kept) |-> BarangayRow(kept[i])]], <<>>)

CompetitorRow(r) == [brand |-> r.brand, lat |-> to_numeric(r.latitude),
                     lon |-> to_numeric(r.longitude)]

load_competitors_from_xlsx(f) ==
    IF f.kind = "missing"
    THEN Return(EmptyFrame, <<Elem("warning", "Competitors file not found")>>)
    ELSE IF f.kind = "unreadable"
    THEN Return(EmptyFrame, <<Elem("warning", "Could not load competitors file")>>)
    ELSE IF f.rows = <<>>
    THEN Return(EmptyFrame, <<Elem("warning", "Competitors file is empty")>>)
    ELSE IF f.kind = "nocol"
    THEN Return(EmptyFrame,
                <<Elem("warning", "Competitors file is missing required columns")>>)
    ELSE LET rows == [i \in 1..Len(f.rows) |-> CompetitorRow(f.rows[i])]
         IN Return([cols |-> {"brand", "lat", "lon"},
                    rows |-> SelectSeq(rows,
                                LAMBDA r : ~IsNaN(r.lat) /\ ~IsNaN(r.lon))], <<>>)

BranchRow(r) == [name |-> r.outlet_name, address |-> r.outlet_address,
                 lat |-> to_numeric(r.latitude), lon |-> to_numeric(r.longitude)]

load_andoks_branches(f) ==
    IF f.kind = "missing"
    THEN Return(EmptyFrame, <<Elem("warning", "Andok's branches file not found")>>)
    ELSE IF f.kind = "unreadable"
    THEN Return(EmptyFrame, <<Elem("warning", "Could not load andoks-branches.xlsx")>>)
    ELSE IF f.rows = <<>>
    THEN Return(EmptyFrame, <<Elem("warning", "Andok's branches file is empty")>>)
    ELSE IF f.kind = "nocol"
    THEN Return(EmptyFrame, <<Elem("warning", "Andok's branches file missing column")>>)
    ELSE LET rows == [i \in 1..Len(f.rows) |-> BranchRow(f.rows[i])]
         IN Return([cols |-> {"name", "address", "lat", "lon"},
                    rows |-> SelectSeq(rows,
                                LAMBDA r : ~IsNaN(r.lat) /\ ~IsNaN(r.lon))], <<>>)

\* The icon: None, or the icon_spec dictionary (kept as its width and height).
load_andoks_icon(f) ==
    IF f.kind = "missing"
    THEN Return(NoIcon, <<Elem("warning", "Andok's icon not found")>>)
    ELSE IF f.kind # "ok"
    THEN Return(NoIcon, <<Elem("warning", "Could not read Andok's icon")>>)
    ELSE Return([width |-> f.width, height |-> f.height,
                 anchorX |-> f.width \div 2, anchorY |-> f.height], <<>>)

MuniRow(r) == [MUNICIPAL |-> r.MUNICIPAL, MUNICIPAL_clean |-> Clean(r.MUNICIPAL)]

load_municipalities(f) ==
    IF f.kind = "missing"
    THEN Return(EmptyFrame, <<Elem("warning", "Municipality shapefile not found")>>)
    ELSE IF f.kind = "unreadable" THEN Raise("read_file")
    ELSE IF f.kind = "nocrs" THEN Raise("to_crs")
    ELSE IF f.kind = "nocol"
    THEN Return([cols |-> {"geometry"}, rows |-> f.rows],
                <<Elem("warning", "Municipality shapefile is missing column 'MUNICIPAL'")>>)
    ELSE LET kept == SelectSeq(f.rows, LAMBDA r : r.geometry)
         IN Return([cols |-> {"MUNICIPAL", "MUNICIPAL_clean", "geometry"},
                    rows |-> [i \in 1..Len(kept) |-> MuniRow(kept[i])]], <<>>)

SalesRow(r) == [Municipality |-> r.Municipality,
                Municipality_clean |-> Clean(r.Municipality),
                year |-> to_numeric(r.year), month |-> to_numeric(r.month),
                monthly_sales |-> to_numeric(r.monthly_sales)]

load_monthly_sales(f) ==
    IF f.kind = "missing"
    THEN Return(EmptyFrame, <<Elem("warning", "Monthly sales file not found")>>)
    ELSE IF f.kind = "unreadable"
    THEN Return(EmptyFrame, <<Elem("warning", "Could not load monthly sales file")>>)
    ELSE IF f.rows = <<>>
    THEN Return(EmptyFrame, <<Elem("warning", "Monthly sales file is empty")>>)
    ELSE IF f.kind = "nocol"
    THEN Return(EmptyFrame, <<Elem("warning", "Monthly sales file missing column")>>)
    ELSE LET rows == [i \in 1..Len(f.rows) |-> SalesRow(f.rows[i])]
         IN Return([cols |-> {"Municipality", "Municipality_clean", "year", "month",
                              "monthly_sales"},
                    rows |-> SelectSeq(rows,
                                LAMBDA r : ~IsNaN(r.year) /\ ~IsNaN(r.month)
                                           /\ ~IsNaN(r.monthly_sales))], <<>>)

Body(l, f) ==
    CASE l = "load_barangays" -> load_barangays(f)
      [] l = "load_competitors_from_xlsx" -> load_competitors_from_xlsx(f)
      [] l = "load_andoks_branches" -> load_andoks_branches(f)
      [] l = "load_andoks_icon" -> load_andoks_icon(f)
      [] l = "load_municipalities" -> load_municipalities(f)
      [] l = "load_monthly_sales" -> load_monthly_sales(f)

-----------------------------------------------------------------------------
(* The SLD styling function.  T0 .. T10 are the eleven thresholds of        *)
(* sld_color, in units of 10^-8.                                            *)

T0 == 102915619
T1 == 167021351
T2 == 211293581
T3 == 247597288
T4 == 285005666
T5 == 318201286
T6 == 352431534
T7 == 392996775
T8 == 444667928
T9 == 504817327
T10 == 622406019

Grey == <<200, 200, 200, 150>>

\* sld_color remembering that it was called in an earlier run
sld_color_stateful(mean_0) ==
    IF mean_0 = None \/ IsNaN(mean_0) \/ run > 1 THEN Grey
    ELSE IF T0 <= mean_0 /\ mean_0 <= T5 THEN <<215, 25, 28, 150>>
    ELSE IF T5 < mean_0 /\ mean_0 <= T10 THEN <<26, 150, 65, 150>>
    ELSE Grey

\* sld_color with the bounds of its ranges closed below and open above
sld_color_open_above(mean_0) ==
    IF mean_0 = None \/ IsNaN(mean_0) THEN Grey
    ELSE IF T0 <= mean_0 /\ mean_0 < T1 THEN <<215, 25, 28, 150>>
    ELSE IF T1 <= mean_0 /\ mean_0 < T2 THEN <<232, 91, 59, 150>>
    ELSE IF T2 <= mean_0 /\ mean_0 < T3 THEN <<249, 157, 89, 150>>
    ELSE IF T3 <= mean_0 /\ mean_0 < T4 THEN <<254, 201, 129, 150>>
    ELSE IF T4 <= mean_0 /\ mean_0 < T5 THEN <<255, 237, 171, 150>>
    ELSE IF T5 <= mean_0 /\ mean_0 < T6 THEN <<235, 247, 173, 150>>
    ELSE IF T6 <= mean_0 /\ mean_0 < T7 THEN <<196, 230, 135, 150>>
    ELSE IF T7 <= mean_0 /\ mean_0 < T8 THEN <<150, 210, 101, 150>>
    ELSE IF T8 <= mean_0 /\ mean_0 < T9 THEN <<88, 180, 83, 150>>
    ELSE IF T9 <= mean_0 /\ mean_0 <= T10 THEN <<26, 150, 65, 150>>
    ELSE Grey

sld_color(mean_0) ==
    IF mean_0 = None \/ IsNaN(mean_0) THEN Grey
    ELSE IF T0 <= mean_0 /\ mean_0 <= T1 THEN <<215, 25, 28, 150>>
    ELSE IF T1 < mean_0 /\ mean_0 <= T2 THEN <<232, 91, 59, 150>>
    ELSE IF T2 < mean_0 /\ mean_0 <= T3 THEN <<249, 157, 89, 150>>
    ELSE IF T3 < mean_0 /\ mean_0 <= T4 THEN <<254, 201, 129, 150>>
    ELSE IF T4 < mean_0 /\ mean_0 <= T5 THEN <<255, 237, 171, 150>>
    ELSE IF T5 < mean_0 /\ mean_0 <= T6 THEN <<235, 247, 173, 150>>
    ELSE IF T6 < mean_0 /\ mean_0 <= T7 THEN <<196, 230, 135, 150>>
    ELSE IF T7 < mean_0 /\ mean_0 <= T8 THEN <<150, 210, 101, 150>>
    ELSE IF T8 < mean_0 /\ mean_0 <= T9 THEN <<88, 180, 83, 150>>
    ELSE IF T9 < mean_0 /\ mean_0 <= T10 THEN <<26, 150, 65, 150>>
    ELSE Grey

\* gdf_barangays["score"].apply(sld_color)
ApplySld(t) ==
    [cols |-> t.cols \cup {"fill_color"},
     rows |-> [i \in 1..Len(t.rows) |->
                 [barangay_name |-> t.rows[i].barangay_name,
                  citymun_name |-> t.rows[i].citymun_name,
                  score |-> t.rows[i].score,
                  fill_color |-> sld_color(t.rows[i].score)]]]

-----------------------------------------------------------------------------
(* The sales classifier and its two cutpoints *)

SalesGrey == <<200, 200, 200, 120>>
Orange == <<255, 165, 0, 180>>
Yellow == <<255, 255, 0, 180>>
Green == <<0, 128, 0, 180>>

RECURSIVE Insert(_, _)
\* x put in its place in the ascending sequence s
Insert(x, s) == IF s = <<>> THEN <<x>>
                ELSE IF x <= Head(s) THEN <<x>> \o s
                ELSE <<Head(s)>> \o Insert(x, Tail(s))
RECURSIVE SortAsc(_)
SortAsc(s) == IF s = <<>> THEN <<>> ELSE Insert(Head(s), SortAsc(Tail(s)))

\* 4 * np.percentile(xs, q) for q = 25 * k, k in {1, 3}: linear interpolation at
\* the virtual index (n - 1) * k / 4 of the sorted values.
PercentileQ(xs, k) ==
    LET v == SortAsc(xs)
        n == Len(v)
        lo == ((n - 1) * k) \div 4
        rem == ((n - 1) * k) % 4
        hi == IF lo + 1 < n THEN lo + 1 ELSE lo
    IN 4 * v[lo + 1] + (v[hi + 1] - v[lo + 1]) * rem

\* sales_color with a value equal to p25 counted as mid-range
sales_color_below_p25(value, p25, p75) ==
    IF value = None \/ IsNaN(value) \/ p25 = None \/ p75 = None THEN SalesGrey
    ELSE IF 4 * value < p25 THEN Orange
    ELSE IF 4 * value < p75 THEN Yellow
    ELSE Green

\* sales_color, a closure over p25 and p75 (both in quarters, or None)
sales_color(value, p25, p75) ==
    IF value = None \/ IsNaN(value) \/ p25 = None \/ p75 = None THEN SalesGrey
    ELSE IF 4 * value <= p25 THEN Orange
    ELSE IF 4 * value < p75 THEN Yellow
    ELSE Green

-----------------------------------------------------------------------------
(* st.cache_data: one entry per loader (each is called with one constant    *)
(* path).  A hit returns a copy of the stored value and replays the stored  *)
(* messages; a body that stops or raises stores nothing.                    *)

NoEntry == [hit |-> FALSE]
Entry(v, msgs) == [hit |-> TRUE, value |-> v, msgs |-> msgs]

\* a cache that never holds an entry
CacheNever(c, l) == FALSE
CacheHit(c, l) == c[l].hit

Call(l) == IF CacheHit(cache, l) THEN Return(cache[l].value, cache[l].msgs)
           ELSE Body(l, files[l])

\* What a cached call does besides binding its result to the script's global.
LoadStep(l, nextpc) ==
    LET hit == CacheHit(cache, l)
        r == Call(l)
    IN /\ reads' = IF hit THEN reads
                   ELSE IF r.status = "return"
                   THEN [reads EXCEPT ![l].returned = @ + 1]
                   ELSE [reads EXCEPT ![l].aborted = @ + 1]
       /\ executed' = IF hit THEN executed ELSE executed \cup {l}
       /\ cache' = IF ~hit /\ r.status = "return"
                   THEN [cache EXCEPT ![l] = Entry(r.value, r.msgs)] ELSE cache
       /\ firstResult' = IF r.status = "return" /\ ~firstResult[l].hit
                         THEN [firstResult EXCEPT ![l] = Entry(r.value, r.msgs)]
                         ELSE firstResult
       /\ received' = IF r.status = "return"
                      THEN [received EXCEPT ![l] = Entry(r.value, r.msgs)]
                      ELSE received
       /\ out' = out \o r.msgs
       /\ pc' = CASE r.status = "return" -> nextpc
                  [] r.status = "stop" -> "stopped"
                  [] r.status = "raise" -> "crashed"

Bind(l, old) == IF Call(l).status = "return" THEN Call(l).value ELSE old

LoadBarangays ==
    /\ pc = "load_barangays"
    /\ LoadStep("load_barangays", "load_competitors")
    /\ gdf_barangays' = Bind("load_barangays", gdf_barangays)
    /\ UNCHANGED <<files, edits, run, df_competitors, df_branches, andoks_icon_spec,
                   gdf_muni, df_monthly_sales, widgets, view, colorLog>>

LoadCompetitors ==
    /\ pc = "load_competitors"
    /\ LoadStep("load_competitors_from_xlsx", "load_branches")
    /\ df_competitors' = Bind("load_competitors_from_xlsx", df_competitors)
    /\ UNCHANGED <<files, edits, run, gdf_barangays, df_branches, andoks_icon_spec,
                   gdf_muni, df_monthly_sales, widgets, view, colorLog>>

LoadBranches ==
    /\ pc = "load_branches"
    /\ LoadStep("load_andoks_branches", "load_icon")
    /\ df_branches' = Bind("load_andoks_branches", df_branches)
    /\ UNCHANGED <<files, edits, run, gdf_barangays, df_competitors, andoks_icon_spec,
                   gdf_muni, df_monthly_sales, widgets, view, colorLog>>

LoadIcon ==
    /\ pc = "load_icon"
    /\ LoadStep("load_andoks_icon", "icon_data")
    /\ andoks_icon_spec' = Bind("load_andoks_icon", andoks_icon_spec)
    /\ UNCHANGED <<files, edits, run, gdf_barangays, df_competitors, df_branches,
                   gdf_muni, df_monthly_sales, widgets, view, colorLog>>

histVars == <<cache, reads, firstResult, received, executed>>

\* One classifier call: the function, its argument, the cutpoints it closes over
\* (None for sld_color, which closes over nothing) and the color it returned.
Logged(fn, value, p25, p75, color) ==
    [fn |-> fn, value |-> value, p25 |-> p25, p75 |-> p75, color |-> color]

\* df_branches["icon_data"] = [andoks_icon_spec] * len(df_branches)
AddIconData(t, spec) ==
    [cols |-> t.cols \cup {"icon_data"},
     rows |-> [i \in 1..Len(t.rows) |->
                 [name |-> t.rows[i].name, address |-> t.rows[i].address,
                  lat |-> t.rows[i].lat, lon |-> t.rows[i].lon,
                  icon_data |-> spec]]]

IconData ==
    /\ pc = "icon_data"
    /\ df_branches' = IF ~IsNone(andoks_icon_spec) /\ ~IsEmpty(df_branches)
                      THEN AddIconData(df_branches, andoks_icon_spec)
                      ELSE df_branches
    /\ pc' = "fill_color"
    /\ UNCHANGED <<files, edits, run, gdf_barangays, df_competitors, andoks_icon_spec,
                   gdf_muni, df_monthly_sales, widgets, view, out, colorLog>>
    /\ UNCHANGED histVars

FillColor ==
    /\ pc = "fill_color"
    /\ gdf_barangays' = ApplySld(gdf_barangays)
    /\ colorLog' = colorLog \cup
          {Logged("sld_color", r.score, None, None, sld_color(r.score)) :
              r \in Range(gdf_barangays.rows)}
    /\ pc' = "brand_colors"
    /\ UNCHANGED <<files, edits, run, df_competitors, df_branches, andoks_icon_spec,
                   gdf_muni, df_monthly_sales, widgets, view, out>>
    /\ UNCHANGED histVars

\* random_color(): two of the colors random.randint(0, 255) can produce
RandomColors == {<<0, 0, 0, 240>>, <<255, 255, 255, 240>>}

AddColor(t, brand_color_map) ==
    [cols |-> t.cols \cup {"color"},
     rows |-> [i \in 1..Len(t.rows) |->
                 [brand |-> t.rows[i].brand, lat |-> t.rows[i].lat,
                  lon |-> t.rows[i].lon,
                  color |-> brand_color_map[t.rows[i].brand]]]]

BrandColors ==
    /\ pc = "brand_colors"
    /\ IF ~IsEmpty(df_competitors)
       THEN \E m \in [{r.brand : r \in Range(df_competitors.rows)} -> RandomColors] :
               df_competitors' = AddColor(df_competitors, m)
       ELSE df_competitors' = df_competitors
    /\ pc' = "load_municipalities"
    /\ UNCHANGED <<files, edits, run, gdf_barangays, df_branches, andoks_icon_spec,
                   gdf_muni, df_monthly_sales, widgets, view, out, colorLog>>
    /\ UNCHANGED histVars

LoadMunicipalities ==
    /\ pc = "load_municipalities"
    /\ LoadStep("load_municipalities", "load_monthly_sales")
    /\ gdf_muni' = Bind("load_municipalities", gdf_muni)
    /\ UNCHANGED <<files, edits, run, gdf_barangays, df_competitors, df_branches,
                   andoks_icon_spec, df_monthly_sales, widgets, view, colorLog>>

LoadMonthlySales ==
    /\ pc = "load_monthly_sales"
    /\ LoadStep("load_monthly_sales", "dashboard")
    /\ df_monthly_sales' = Bind("load_monthly_sales", df_monthly_sales)
    /\ UNCHANGED <<files, edits, run, gdf_barangays, df_competitors, df_branches,
                   andoks_icon_spec, gdf_muni, widgets, view, colorLog>>

-----------------------------------------------------------------------------
(* Site Selection dashboard *)

\* The alphabetical order of the city names the model uses, for sorted() and
\* for groupby's sorted keys.
CityNames == <<"Baliwag", "Malolos", "Obando">>

CityList(t) ==
    SelectSeq(CityNames, LAMBDA c : \E r \in Range(t.rows) : r.citymun_name = c)

RECURSIVE SumSeq(_)
SumSeq(s) == IF s = <<>> THEN 0 ELSE Head(s) + SumSeq(Tail(s))

Scores(rows) ==
    LET valid == SelectSeq(rows, LAMBDA r : ~IsNaN(r.score))
    IN [i \in 1..Len(valid) |-> valid[i].score]

\* groupby("citymun_name")["score"].agg(["count", "mean", "min", "max"]): the
\* aggregates skip NaN; the mean is kept as the fraction num / den (0 / 0: NaN).
SummaryRow(c, rows) ==
    LET xs == Scores(SelectSeq(rows, LAMBDA r : r.citymun_name = c))
        v == SortAsc(xs)
    IN [Municipality_City |-> c,
        No_of_barangays |-> Len(xs),
        Average_score |-> [num |-> SumSeq(xs), den |-> Len(xs)],
        Min_score |-> IF xs = <<>> THEN NaN ELSE v[1],
        Max_score |-> IF xs = <<>> THEN NaN ELSE v[Len(v)]]

\* the summary taken over the barangays of the selected city
SummaryOfSelection(t) ==
    LET rows == IF widgets.selected_city # "All"
                THEN SelectSeq(t.rows, LAMBDA r : r.citymun_name = widgets.selected_city)
                ELSE t.rows
        keys == CityList([cols |-> t.cols, rows |-> rows])
    IN [i \in 1..Len(keys) |-> SummaryRow(keys[i], rows)]

Summary(t) ==
    LET keys == CityList(t)
    IN [i \in 1..Len(keys) |-> SummaryRow(keys[i], t.rows)]

RECURSIVE InsertDesc(_, _)
\* The pair r = [key, row] put behind every pair of s that
\* sort_values(ascending=False) keeps before it: those with a larger or equal
\* key; NaN keys go last.
InsertDesc(r, s) ==
    IF s = <<>> THEN <<r>>
    ELSE IF ~IsNaN(r.key) /\ (IsNaN(Head(s).key) \/ r.key > Head(s).key)
         THEN <<r>> \o s
         ELSE <<Head(s)>> \o InsertDesc(r, Tail(s))
RECURSIVE SortDesc(_)
SortDesc(s) ==
    IF s = <<>> THEN <<>>
    ELSE InsertDesc(s[Len(s)], SortDesc(SubSeq(s, 1, Len(s) - 1)))

\* gdf_filtered[...].sort_values("score", ascending=False).reset_index(drop=True),
\* then index + 1 and the renamed columns
RankTable(rows) ==
    LET sorted == SortDesc([i \in 1..Len(rows) |->
                              [key |-> rows[i].score, row |-> rows[i]]])
    IN [i \in 1..Len(sorted) |->
          [index |-> (i - 1) + 1,
           Barangay |-> sorted[i].row.barangay_name,
           Municipality_City |-> sorted[i].row.citymun_name,
           Score_mean_0 |-> sorted[i].row.score]]

Filtered(t, selected_city) ==
    IF selected_city # "All"
    THEN SelectSeq(t.rows, LAMBDA r : r.citymun_name = selected_city)
    ELSE t.rows

\* layers with the competitors put under the polygons
LayersCompetitorsBelow(w) ==
    <<"TileLayer">>
    \o (IF w.show_competitors /\ ~IsEmpty(df_competitors)
        THEN <<"ScatterplotLayer">> ELSE <<>>)
    \o <<"GeoJsonLayer">>
    \o (IF w.show_andoks_branches /\ ~IsNone(andoks_icon_spec) /\ ~IsEmpty(df_branches)
        THEN <<"IconLayer">> ELSE <<>>)

Layers(w) ==
    <<"TileLayer", "GeoJsonLayer">>
    \o (IF w.show_competitors /\ ~IsEmpty(df_competitors)
        THEN <<"ScatterplotLayer">> ELSE <<>>)
    \o (IF w.show_andoks_branches /\ ~IsNone(andoks_icon_spec) /\ ~IsEmpty(df_branches)
        THEN <<"IconLayer">> ELSE <<>>)

Previews ==
    (IF ~IsEmpty(df_competitors)
     THEN <<Elem("table", "Preview competitors data")>> ELSE <<>>)
    \o (IF ~IsEmpty(df_branches)
        THEN <<Elem("table", "Preview Andok's branches data")>> ELSE <<>>)

\* the elements of a Site Selection run, its tables rendered above the map
SiteOutputTablesFirst ==
    Previews
    \o <<Elem("subheader", "Municipality Summary"),
         Elem("table", "Municipality Summary"),
         Elem("subheader", "Barangay Suitability Map"),
         Elem("map", "Site Selection"),
         Elem("subheader", "Barangay Ranking"),
         Elem("table", "Barangay Ranking")>>

\* the elements of a Site Selection run that has barangays to show
SiteOutput ==
    Previews
    \o <<Elem("subheader", "Barangay Suitability Map"),
         Elem("map", "Site Selection"),
         Elem("subheader", "Municipality Summary"),
         Elem("table", "Municipality Summary"),
         Elem("subheader", "Barangay Ranking"),
         Elem("table", "Barangay Ranking")>>

NoView == [stage |-> "none", layers |-> <<>>, filtered |-> <<>>, summary |-> <<>>,
           rank_table |-> <<>>, joined |-> <<>>, p25 |-> None, p75 |-> None,
           summary_sales |-> <<>>]

SiteSelection ==
    /\ pc = "dashboard"
    /\ widgets.dashboard_choice = "Site Selection"
    /\ LET gdf_filtered == Filtered(gdf_barangays, widgets.selected_city)
           head == <<Elem("subheader", "Site Selection")>>
       IN IF gdf_filtered = <<>>
          THEN /\ out' = out \o head
                           \o <<Elem("warning", "No barangays match the current filter.")>>
               /\ view' = [NoView EXCEPT !.stage = "site"]
               /\ pc' = "stopped"
          ELSE /\ out' = out \o head \o SiteOutput
               /\ view' = [NoView EXCEPT !.stage = "site",
                                         !.layers = Layers(widgets),
                                         !.filtered = gdf_filtered,
                                         !.summary = Summary(gdf_barangays),
                                         !.rank_table = RankTable(gdf_filtered)]
               /\ pc' = "done"
    /\ UNCHANGED <<files, edits, run, gdf_barangays, df_competitors, df_branches,
                   andoks_icon_spec, gdf_muni, df_monthly_sales, widgets, colorLog>>
    /\ UNCHANGED histVars

-----------------------------------------------------------------------------
(* Monthly Sales dashboard *)

RECURSIVE Unique(_)
\* the distinct elements of s, each at its first place
Unique(s) ==
    IF s = <<>> THEN <<>>
    ELSE LET init == Unique(SubSeq(s, 1, Len(s) - 1))
         IN IF s[Len(s)] \in Range(init) THEN init ELSE Append(init, s[Len(s)])

\* df.groupby("Municipality_clean")["monthly_sales"].sum().reset_index(), the
\* sum renamed sales_total: one row per distinct key
SalesAgg(rows) ==
    LET keys == Unique([i \in 1..Len(rows) |-> rows[i].Municipality_clean])
        SalesOf(k) == LET own == SelectSeq(rows, LAMBDA r : r.Municipality_clean = k)
                      IN SumSeq([i \in 1..Len(own) |-> own[i].monthly_sales])
    IN [i \in 1..Len(keys) |->
          [Municipality_clean |-> keys[i], sales_total |-> SalesOf(keys[i])]]

RECURSIVE Merge(_, _)
\* left.merge(right, left_on="MUNICIPAL_clean", right_on="Municipality_clean",
\* how="left"): every left row once per matching right row, in left order, and
\* once with a NaN sales_total when no right row matches
Merge(left, right) ==
    IF left = <<>> THEN <<>>
    ELSE LET l == Head(left)
             m == SelectSeq(right, LAMBDA r : r.Municipality_clean = l.MUNICIPAL_clean)
             Joined(total) == [MUNICIPAL |-> l.MUNICIPAL,
                               MUNICIPAL_clean |-> l.MUNICIPAL_clean,
                               sales_total |-> total]
         IN (IF m = <<>> THEN <<Joined(NaN)>>
             ELSE [i \in 1..Len(m) |-> Joined(m[i].sales_total)])
            \o Merge(Tail(left), right)

ValidSales(joined) ==
    LET valid == SelectSeq(joined, LAMBDA r : ~IsNaN(r.sales_total))
    IN [i \in 1..Len(valid) |-> valid[i].sales_total]

P25(joined) == IF ValidSales(joined) = <<>> THEN None
               ELSE PercentileQ(ValidSales(joined), 1)
P75(joined) == IF ValidSales(joined) = <<>> THEN None
               ELSE PercentileQ(ValidSales(joined), 3)

\* gdf_joined["sales_total"].apply(sales_color)
ApplySalesColor(joined, p25, p75) ==
    [i \in 1..Len(joined) |->
        [MUNICIPAL |-> joined[i].MUNICIPAL,
         MUNICIPAL_clean |-> joined[i].MUNICIPAL_clean,
         sales_total |-> joined[i].sales_total,
         fill_color_sales |-> sales_color(joined[i].sales_total, p25, p75)]]

SummarySales(joined) ==
    LET sorted == SortDesc([i \in 1..Len(joined) |->
                              [key |-> joined[i].sales_total, row |-> joined[i]]])
    IN [i \in 1..Len(sorted) |->
          [Municipality |-> sorted[i].row.MUNICIPAL,
           Total_monthly_sales |-> sorted[i].row.sales_total]]

Years(t) == SortAsc(Unique([i \in 1..Len(t.rows) |-> t.rows[i].year]))

FilteredSales(t, selected_year, selected_month) ==
    SelectSeq(t.rows, LAMBDA r : r.year = selected_year /\ r.month = selected_month)

MonthlySales ==
    /\ pc = "dashboard"
    /\ widgets.dashboard_choice = "Monthly Sales"
    /\ UNCHANGED <<files, edits, run, gdf_barangays, df_competitors, df_branches,
                   andoks_icon_spec, gdf_muni, df_monthly_sales>>
    /\ UNCHANGED histVars
    /\ LET head == <<Elem("subheader", "Monthly Sales")>>
       IN IF IsEmpty(gdf_muni) \/ IsEmpty(df_monthly_sales)
          THEN /\ out' = out \o head \o <<Elem("warning",
                     "Municipality boundaries or monthly sales data are not available.")>>
               /\ view' = [NoView EXCEPT !.stage = "sales_unavailable"]
               /\ pc' = "stopped"
               /\ UNCHANGED <<widgets, colorLog>>
          ELSE IF Years(df_monthly_sales) = <<>>
          THEN /\ out' = out \o head \o <<Elem("warning",
                     "No valid years found in monthly sales data.")>>
               /\ view' = [NoView EXCEPT !.stage = "sales_unavailable"]
               /\ pc' = "stopped"
               /\ UNCHANGED <<widgets, colorLog>>
          ELSE
            LET years == Years(df_monthly_sales)
                selected_year == IF widgets.selected_year = None
                                 THEN years[Len(years)] ELSE widgets.selected_year
                selected_month == widgets.selected_month
                df_filtered_sales ==
                    FilteredSales(df_monthly_sales, selected_year, selected_month)
                sales_agg == SalesAgg(df_filtered_sales)
                gdf_joined == Merge(gdf_muni.rows, sales_agg)
                p25 == P25(gdf_joined)
                p75 == P75(gdf_joined)
                colored == ApplySalesColor(gdf_joined, p25, p75)
            IN /\ widgets' = [widgets EXCEPT !.selected_year = selected_year]
               /\ IF df_filtered_sales = <<>>
                  THEN /\ out' = out \o head \o <<Elem("warning",
                             "No sales data for the selected year and month.")>>
                       /\ view' = [NoView EXCEPT !.stage = "sales"]
                       /\ pc' = "done"
                       /\ UNCHANGED colorLog
                  ELSE IF "MUNICIPAL_clean" \notin gdf_muni.cols
                  THEN /\ out' = out \o head \o <<Elem("exception", "merge")>>
                       /\ view' = [NoView EXCEPT !.stage = "sales"]
                       /\ pc' = "crashed"
                       /\ UNCHANGED colorLog
                  ELSE /\ out' = out \o head
                                   \o <<Elem("subheader", "Monthly Sales by Municipality"),
                                        Elem("map", "Monthly Sales"),
                                        Elem("markdown", "Legend"),
                                        Elem("subheader", "Municipality Sales Summary"),
                                        Elem("table", "Municipality Sales Summary")>>
                       /\ view' = [NoView EXCEPT !.stage = "sales",
                                                 !.layers = <<"TileLayer", "GeoJsonLayer">>,
                                                 !.joined = colored,
                                                 !.p25 = p25, !.p75 = p75,
                                                 !.summary_sales = SummarySales(colored)]
                       /\ colorLog' = colorLog \cup
                             {Logged("sales_color", r.sales_total, p25, p75,
                                     r.fill_color_sales) : r \in Range(colored)}
                       /\ pc' = "done"

-----------------------------------------------------------------------------
(* Reruns.  A widget interaction (or a reload of the page) runs the script  *)
(* again from the top with fresh globals; the cache survives.  A widget     *)
(* that the ended run did not render has lost its value.                    *)

Defaults == [dashboard_choice |-> "Site Selection", selected_city |-> "All",
             show_competitors |-> TRUE, show_andoks_branches |-> TRUE,
             selected_year |-> None, selected_month |-> 1]

Months == 1..MaxMonth

NextWidgets ==
    {Defaults} \cup
    (CASE view.stage = "site" ->
            {widgets, [Defaults EXCEPT !.dashboard_choice = "Monthly Sales"],
             [widgets EXCEPT !.show_competitors = ~@],
             [widgets EXCEPT !.show_andoks_branches = ~@]}
            \cup {[widgets EXCEPT !.selected_city = c] :
                     c \in {"All"} \cup Range(CityList(gdf_barangays))}
       [] view.stage = "sales_unavailable" -> {widgets}
       [] view.stage = "sales" ->
            {widgets}
            \cup {[widgets EXCEPT !.selected_year = y] :
                     y \in Range(Years(df_monthly_sales))}
            \cup {[widgets EXCEPT !.selected_month = m] : m \in Months}
       [] OTHER -> {})

Unbound == [l \in Loaders |-> NoEntry]

Rerun ==
    /\ pc \in {"done", "stopped", "crashed"}
    /\ run < MaxRuns
    /\ run' = run + 1
    /\ pc' = "load_barangays"
    /\ widgets' \in NextWidgets
    /\ files' \in {files} \cup {[files EXCEPT ![e.loader] = e.file] : e \in edits}
    /\ gdf_barangays' = EmptyFrame
    /\ df_competitors' = EmptyFrame
    /\ df_branches' = EmptyFrame
    /\ andoks_icon_spec' = NoIcon
    /\ gdf_muni' = EmptyFrame
    /\ df_monthly_sales' = EmptyFrame
    /\ view' = NoView
    /\ out' = <<>>
    /\ received' = Unbound
    /\ executed' = {}
    /\ UNCHANGED <<edits, cache, reads, firstResult, colorLog>>

Next ==
    \/ LoadBarangays \/ LoadCompetitors \/ LoadBranches \/ LoadIcon
    \/ IconData \/ FillColor \/ BrandColors
    \/ LoadMunicipalities \/ LoadMonthlySales
    \/ SiteSelection \/ MonthlySales
    \/ Rerun

\* The state before the first run of the script, on the files fs.
Start(fs, es) ==
    /\ files = fs
    /\ edits = es
    /\ cache = Unbound
    /\ reads = [l \in Loaders |-> [returned |-> 0, aborted |-> 0]]
    /\ firstResult = Unbound
    /\ received = Unbound
    /\ executed = {}
    /\ run = 1
    /\ pc = "load_barangays"
    /\ gdf_barangays = EmptyFrame
    /\ df_competitors = EmptyFrame
    /\ df_branches = EmptyFrame
    /\ andoks_icon_spec = NoIcon
    /\ gdf_muni = EmptyFrame
    /\ df_monthly_sales = EmptyFrame
    /\ widgets = Defaults
    /\ view = NoView
    /\ out = <<>>
    /\ colorLog = {}

-----------------------------------------------------------------------------
(* The files the specifications start from *)

File(kind, rows) == [kind |-> kind, rows |-> rows]
Missing == File("missing", <<>>)
IconFile(kind) == [kind |-> kind, width |-> 65, height |-> 64]

Brgy(name, city, mean_0, geometry) ==
    [ADM4_EN |-> name, ADM3_EN |-> city, mean_0 |-> mean_0, geometry |-> geometry]

Files(b, c, br, i, m, s) ==
    [load_barangays |-> b, load_competitors_from_xlsx |-> c,
     load_andoks_branches |-> br, load_andoks_icon |-> i,
     load_municipalities |-> m, load_monthly_sales |-> s]

Thresholds == {T0, T1, T2, T3, T4, T5, T6, T7, T8, T9, T10}

\* mean_0 cells: every score within Delta of a threshold, an empty cell, text
RawScores == {Num(t + d) : t \in Thresholds, d \in (0 - Delta)..Delta}
             \cup {Blank, Text}

InitSld ==
    \E c \in RawScores :
        Start(Files(File("ok", <<Brgy("Poblacion", "Malolos", c, TRUE)>>),
                    Missing, Missing, IconFile("missing"), Missing, Missing), {})

SpecSld == InitSld /\ [][Next]_vars

-----------------------------------------------------------------------------
(* C1 *)

Thr == <<T0, T1, T2, T3, T4, T5, T6, T7, T8, T9, T10>>

SldPalette == <<
    <<215, 25, 28, 150>>, <<232, 91, 59, 150>>, <<249, 157, 89, 150>>,
    <<254, 201, 129, 150>>, <<255, 237, 171, 150>>, <<235, 247, 173, 150>>,
    <<196, 230, 135, 150>>, <<150, 210, 101, 150>>, <<88, 180, 83, 150>>,
    <<26, 150, 65, 150>> >>

\* the i-th colored range: closed at both ends for the first, open below and
\* closed above for the others
InRange(i, x) == (IF i = 1 THEN Thr[1] <= x ELSE Thr[i] < x) /\ x <= Thr[i + 1]

OutOfRange(x) == IsNaN(x) \/ x < T0 \/ x > T10

ColoredRows == IF "fill_color" \in gdf_barangays.cols
               THEN Range(gdf_barangays.rows) ELSE {}

\* C1: every score is in exactly one of 11 buckets. The 10 colored ranges tile
\* [T0, T10]: the first is [T0, T1], the i-th is (T(i-1), Ti], so that a score
\* equal to an interior threshold is in the lower range; a score below T0, above
\* T10 or missing is grey. The 10 colors differ pairwise and from grey.
C1_SldBuckets ==
    /\ \A i, j \in 1..10 : i # j => SldPalette[i] # SldPalette[j]
    /\ \A i \in 1..10 : SldPalette[i] # Grey
    /\ \A r \in ColoredRows :
          IF OutOfRange(r.score)
          THEN /\ r.fill_color = Grey
               /\ \A i \in 1..10 : ~InRange(i, r.score)
          ELSE /\ Cardinality({i \in 1..10 : InRange(i, r.score)}) = 1
               /\ \A i \in 1..10 : InRange(i, r.score) => r.fill_color = SldPalette[i]

\* A score equal to an interior threshold has been colored, with the color of
\* the range below it.
C1_Witness ==
    \E r \in ColoredRows : r.score = T5 /\ r.fill_color = SldPalette[5]

-----------------------------------------------------------------------------
(* The files of the Monthly Sales specification: three polygons and three   *)
(* sales rows whose names differ in case and in surrounding blanks.         *)

Poly(name, geometry) == [MUNICIPAL |-> name, geometry |-> geometry]

Sale(name, year, month, monthly_sales) ==
    [Municipality |-> name, year |-> Num(year), month |-> Num(month),
     monthly_sales |-> monthly_sales]

MuniTables ==
    {<<Poly(n1, TRUE), Poly(n2, TRUE), Poly(<<"C">>, g)>> :
        n1 \in {<<"A">>, <<"a", " ">>}, n2 \in {<<"B">>, <<" ", "A">>},
        g \in BOOLEAN}

SalesTables ==
    {<<Sale(<<"a">>, 2024, 1, s1), Sale(n2, 2024, m2, s2), Sale(n3, y3, 1, s3)>> :
        s1 \in {Num(10), Num(20)},
        n2 \in {<<" ", "A">>, <<"b">>}, m2 \in Months, s2 \in {Num(20), Num(30)},
        n3 \in {<<"C", " ">>, <<"D">>}, y3 \in {2023, 2024}, s3 \in {Num(10), Blank}}

InitSales ==
    \E m \in MuniTables, t \in SalesTables :
        Start(Files(File("ok", <<Brgy("Poblacion", "Malolos", Num(T5), TRUE),
                                 Brgy("Poblacion", "Obando", Num(T5), TRUE)>>),
                    Missing, Missing, IconFile("missing"),
                    File("ok", m), File("ok", t)), {})

SpecSales == InitSales /\ [][Next]_vars

-----------------------------------------------------------------------------
(* C2 *)

\* the polygons of the rendered sales map that have a sales total
SalesRows == {r \in Range(view.joined) : ~IsNaN(r.sales_total)}

-----------------------------------------------------------------------------
(* C8 *)

RECURSIVE SumOver(_, _)
\* the sum of f over the finite set S
SumOver(S, f) == IF S = {} THEN 0
                 ELSE LET x == CHOOSE y \in S : TRUE
                      IN f[x] + SumOver(S \ {x}, f)

\* the rows of the loaded sales table that the claim gives to a polygon name:
\* the selected year and month, and the same name once both are upper-cased
\* and stripped
RowsOf(name) ==
    {i \in 1..Len(df_monthly_sales.rows) :
        LET s == df_monthly_sales.rows[i]
        IN /\ s.year = widgets.selected_year
           /\ s.month = widgets.selected_month
           /\ Strip(Upper(s.Municipality)) = Strip(Upper(name))}

TotalOf(name) ==
    SumOver(RowsOf(name),
            [i \in 1..Len(df_monthly_sales.rows) |-> df_monthly_sales.rows[i].monthly_sales])

SalesMapRendered == view.stage = "sales" /\ Elem("map", "Monthly Sales") \in Range(out)

\* C8: the joined table has exactly one row per municipality polygon, in the
\* polygons' order; a polygon's sales_total is the sum of monthly_sales over the
\* sales rows of the selected year and month with the same upper-cased, stripped
\* name; a polygon without such a row has no sales_total, is grey, and does not
\* count in the 25th and 75th percentiles.
C8_Join ==
    SalesMapRendered =>
        LET polys == gdf_muni.rows
            with == {i \in 1..Len(polys) : RowsOf(polys[i].MUNICIPAL) # {}}
        IN /\ Len(view.joined) = Len(polys)
           /\ \A i \in 1..Len(polys) :
                 /\ view.joined[i].MUNICIPAL = polys[i].MUNICIPAL
                 /\ IF i \in with
                    THEN /\ view.joined[i].sales_total = TotalOf(polys[i].MUNICIPAL)
                         /\ view.joined[i].fill_color_sales # SalesGrey
                    ELSE /\ IsNaN(view.joined[i].sales_total)
                         /\ view.joined[i].fill_color_sales = SalesGrey
           /\ Len(ValidSales(view.joined)) = Cardinality(with)
           /\ with # {} =>
                 /\ view.p25 = PercentileQ(ValidSales(view.joined), 1)
                 /\ view.p75 = PercentileQ(ValidSales(view.joined), 3)

\* A polygon whose total sums two sales rows written in another case and with
\* blanks, beside a polygon without sales.
C8_Witness ==
    /\ SalesMapRendered
    /\ \E i \in 1..Len(gdf_muni.rows) :
          /\ Cardinality(RowsOf(gdf_muni.rows[i].MUNICIPAL)) = 2
          /\ gdf_muni.rows[i].MUNICIPAL = <<"a", " ">>
    /\ \E r \in Range(view.joined) : IsNaN(r.sales_total)

-----------------------------------------------------------------------------
(* C3 *)

Determined ==
    \A a, b \in colorLog :
        (a.fn = b.fn /\ a.value = b.value /\ a.p25 = b.p25 /\ a.p75 = b.p75)
            => a.color = b.color

\* what a step that calls a classifier leaves alone: the files, the cache and
\* every global but the table that gets the color column, of which it changes
\* no other column
ClassifierFrame ==
    /\ pc = "fill_color" =>
          /\ UNCHANGED <<files, cache, df_competitors, df_branches, andoks_icon_spec,
                         gdf_muni, df_monthly_sales, widgets>>
          /\ Len(gdf_barangays'.rows) = Len(gdf_barangays.rows)
          /\ \A i \in 1..Len(gdf_barangays.rows) :
                /\ gdf_barangays'.rows[i].barangay_name = gdf_barangays.rows[i].barangay_name
                /\ gdf_barangays'.rows[i].citymun_name = gdf_barangays.rows[i].citymun_name
                /\ gdf_barangays'.rows[i].score = gdf_barangays.rows[i].score
    /\ (pc = "dashboard" /\ widgets.dashboard_choice = "Monthly Sales") =>
          UNCHANGED <<files, cache, gdf_barangays, df_competitors, df_branches,
                      andoks_icon_spec, gdf_muni, df_monthly_sales>>

-----------------------------------------------------------------------------
(* The files of the Site Selection specification: up to three barangays in  *)
(* up to three cities, with and without competitors, branches and the icon. *)

BrgyTables ==
    {<<>>} \cup
    {<<Brgy("Poblacion", "Malolos", c1, TRUE), Brgy("Tabang", city2, c2, g2),
       Brgy("Poblacion", "Obando", c3, TRUE)>> :
        c1 \in {Num(T5), Blank}, city2 \in {"Malolos", "Baliwag"},
        c2 \in {Num(T5), Num(T9)}, g2 \in BOOLEAN, c3 \in {Num(T1), Text}}

Competitor(brand, latitude) ==
    [brand |-> brand, latitude |-> latitude, longitude |-> Num(120)]

Branch(name, latitude) ==
    [outlet_name |-> name, outlet_address |-> "Malolos", latitude |-> latitude,
     longitude |-> Num(120)]

CompetitorFiles ==
    {Missing,
     File("ok", <<Competitor("Chooks", Blank)>>),
     File("ok", <<Competitor("Chooks", Num(14)), Competitor("Baliwag", Num(15))>>)}

BranchFiles == {Missing, File("ok", <<Branch("Andok's Malolos", Num(14))>>)}

InitSite ==
    \E b \in BrgyTables, c \in CompetitorFiles, br \in BranchFiles,
       i \in {"missing", "ok"} :
        Start(Files(File("ok", b), c, br, IconFile(i), Missing, Missing), {})

SpecSite == InitSite /\ [][Next]_vars

-----------------------------------------------------------------------------
(* C9 *)

SiteMapRendered == view.stage = "site" /\ Elem("map", "Site Selection") \in Range(out)

LayerOrder == <<"TileLayer", "GeoJsonLayer", "ScatterplotLayer", "IconLayer">>
PlaceOf(layer) == CHOOSE k \in 1..Len(LayerOrder) : LayerOrder[k] = layer

\* C9: the layer list of a Site Selection map is the satellite tiles, the
\* barangay polygons, then the competitors, then the Andok's icons; the
\* competitor layer is there iff 'Show competitors' is checked and the
\* competitors table is non-empty; the icon layer iff 'Show Andok's branches'
\* is checked, the icon was loaded and the branches table is non-empty.
C9_Layers ==
    SiteMapRendered =>
        LET layers == view.layers
        IN /\ Len(layers) >= 2
           /\ layers[1] = "TileLayer"
           /\ layers[2] = "GeoJsonLayer"
           /\ \A i, j \in 1..Len(layers) :
                 i < j => PlaceOf(layers[i]) < PlaceOf(layers[j])
           /\ "ScatterplotLayer" \in Range(layers)
                 <=> (widgets.show_competitors /\ Len(df_competitors.rows) > 0)
           /\ "IconLayer" \in Range(layers)
                 <=> (/\ widgets.show_andoks_branches
                      /\ andoks_icon_spec # NoIcon
                      /\ Len(df_branches.rows) > 0)

\* A map with all four layers, and one without the competitors because the box
\* is unchecked although competitors were loaded.
C9_Witness ==
    /\ SiteMapRendered
    /\ Len(df_competitors.rows) > 0
    /\ Len(df_branches.rows) > 0
    /\ ~widgets.show_competitors
    /\ view.layers = <<"TileLayer", "GeoJsonLayer", "IconLayer">>

-----------------------------------------------------------------------------
(* C10 *)

IndicesOf(c) == {i \in 1..Len(gdf_barangays.rows) :
                    gdf_barangays.rows[i].citymun_name = c}
ScoredOf(c) == {i \in IndicesOf(c) : ~IsNaN(gdf_barangays.rows[i].score)}
ScoreAt == [i \in 1..Len(gdf_barangays.rows) |-> gdf_barangays.rows[i].score]

SelectedIndices ==
    {i \in 1..Len(gdf_barangays.rows) :
        widgets.selected_city = "All"
        \/ gdf_barangays.rows[i].citymun_name = widgets.selected_city}

\* C10: whatever city is selected, the Municipality Summary has one row per
\* municipality of the whole loaded barangay set, with the count, mean, min and
\* max of its scores; the Barangay Ranking holds exactly the barangays of the
\* selected city (all for 'All'), each once, by score descending, numbered
\* from 1.
C10_Tables ==
    SiteMapRendered =>
        LET cities == {gdf_barangays.rows[i].citymun_name :
                          i \in 1..Len(gdf_barangays.rows)}
            rank == view.rank_table
        IN /\ Len(view.summary) = Cardinality(cities)
           /\ \A c \in cities :
                 \E k \in 1..Len(view.summary) :
                    LET row == view.summary[k]
                    IN /\ row.Municipality_City = c
                       /\ row.No_of_barangays = Cardinality(ScoredOf(c))
                       /\ row.Average_score.num = SumOver(ScoredOf(c), ScoreAt)
                       /\ row.Average_score.den = Cardinality(ScoredOf(c))
                       /\ IF ScoredOf(c) = {} THEN IsNaN(row.Min_score) /\ IsNaN(row.Max_score)
                          ELSE /\ \E i \in ScoredOf(c) : ScoreAt[i] = row.Min_score
                               /\ \E i \in ScoredOf(c) : ScoreAt[i] = row.Max_score
                               /\ \A i \in ScoredOf(c) :
                                     row.Min_score <= ScoreAt[i] /\ ScoreAt[i] <= row.Max_score
           /\ Len(rank) = Cardinality(SelectedIndices)
           /\ \E f \in [1..Len(rank) -> SelectedIndices] :
                 /\ \A i, j \in 1..Len(rank) : i # j => f[i] # f[j]
                 /\ \A i \in 1..Len(rank) :
                       /\ rank[i].Barangay = gdf_barangays.rows[f[i]].barangay_name
                       /\ rank[i].Municipality_City = gdf_barangays.rows[f[i]].citymun_name
                       /\ rank[i].Score_mean_0 = gdf_barangays.rows[f[i]].score
           /\ \A i \in 1..Len(rank) : rank[i].index = i
           /\ \A i, j \in 1..Len(rank) :
                 i < j => \/ IsNaN(rank[j].Score_mean_0)
                          \/ /\ ~IsNaN(rank[i].Score_mean_0)
                             /\ rank[i].Score_mean_0 >= rank[j].Score_mean_0

\* One city of three is selected: the summary still has its three rows, and
\* the ranking has the one barangay of that city.
C10_Witness ==
    /\ SiteMapRendered
    /\ widgets.selected_city = "Obando"
    /\ Len(view.summary) = 3
    /\ Len(view.rank_table) = 1

-----------------------------------------------------------------------------
(* The files of the full specification: every loader meets files it cannot  *)
(* use, and two of the files are replaced between reruns.                   *)

OneBarangay == <<Brgy("Poblacion", "Malolos", Num(T5), TRUE)>>
OneCompetitor == <<Competitor("Chooks", Num(14))>>
OneBranch == <<Branch("Andok's Malolos", Num(14))>>
OnePolygon == <<Poly(<<"A">>, TRUE)>>
OneSale == <<Sale(<<"a">>, 2024, 1, Num(10))>>

Edit(l, f) == [loader |-> l, file |-> f]

InitFull ==
    \E b \in {File("unreadable", <<>>), File("nocol", OneBarangay),
              File("ok", <<>>), File("ok", OneBarangay)},
       c \in {Missing, File("unreadable", <<>>), File("nocol", OneCompetitor),
              File("ok", OneCompetitor)},
       br \in {Missing, File("ok", <<>>), File("ok", OneBranch)},
       i \in {"missing", "unreadable", "ok"},
       m \in {Missing, File("unreadable", <<>>), File("nocrs", OnePolygon),
              File("nocol", <<[geometry |-> TRUE]>>), File("ok", OnePolygon)},
       t \in {Missing, File("unreadable", <<>>), File("nocol", OneSale),
              File("ok", <<>>), File("ok", OneSale)} :
        Start(Files(b, c, br, IconFile(i), m, t),
              {Edit("load_barangays", File("ok", OneBarangay)),
               Edit("load_competitors_from_xlsx", File("ok", <<>>))})

Spec == InitFull /\ [][Next]_vars

-----------------------------------------------------------------------------
(* C4 *)

WarnAndEmptyLoaders == Loaders \ {"load_barangays"}

\* a file the claim calls a failure: absent, unreadable, without rows or
\* without a required column
Failing(l) ==
    \/ files[l].kind # "ok"
    \/ l # "load_andoks_icon" /\ files[l].rows = <<>>

EmptyResult(l, v) == IF l = "load_andoks_icon" THEN v = NoIcon ELSE IsEmpty(v)

\* C4: whenever the body of load_competitors_from_xlsx, load_andoks_branches,
\* load_andoks_icon, load_municipalities or load_monthly_sales runs on a file
\* that is absent, unreadable, without rows or without a required column, the
\* loader returns (it neither raises nor stops the script), has emitted a
\* warning, and its result is an empty table (None for the icon).
C4_WarnAndEmpty ==
    \A l \in WarnAndEmptyLoaders :
        (l \in executed /\ Failing(l)) =>
            /\ received[l].hit
            /\ \E m \in Range(received[l].msgs) : m.kind = "warning"
            /\ EmptyResult(l, received[l].value)

-----------------------------------------------------------------------------
(* C5 *)

\* C5 as stated: each loader reads its file at most once, and every run
\* receives the result of the first load.
C5_LoadOnceAsStated ==
    \A l \in Loaders :
        /\ reads[l].returned + reads[l].aborted <= 1
        /\ received[l].hit => received[l].value = firstResult[l].value

ReceivedFirst ==
    \A l \in Loaders :
        /\ reads[l].returned <= 1
        /\ received[l].hit => received[l].value = firstResult[l].value
        /\ cache[l].hit <=> reads[l].returned = 1

NoReadAfterReturn ==
    \A l \in Loaders : reads[l].returned = 1 => reads'[l] = reads[l]

\* C5 amended: each loader reads its file at most once with a result, and from
\* then on never again: every later rerun receives that result unchanged (an
\* empty result of a failed load included), whatever columns the runs added to
\* their copies and whatever became of the file. A load that stops the script
\* (load_barangays on a missing column) or raises (a shapefile that cannot be
\* read) is not memoized: the next rerun reads the file again.
C5_LoadOnce == []ReceivedFirst /\ [][NoReadAfterReturn]_vars

\* A rerun has received from the cache a competitors table that the file, as
\* it is now, would not give, after the earlier run added its color column.
C5_Witness ==
    /\ run >= 2
    /\ pc = "done"
    /\ received["load_competitors_from_xlsx"].hit
    /\ reads["load_competitors_from_xlsx"] = [returned |-> 1, aborted |-> 0]
    /\ ~IsEmpty(received["load_competitors_from_xlsx"].value)
    /\ IsEmpty(Body("load_competitors_from_xlsx",
                    files["load_competitors_from_xlsx"]).value)
    /\ "color" \in df_competitors.cols
    /\ "color" \notin received["load_competitors_from_xlsx"].value.cols

-----------------------------------------------------------------------------
(* C6 *)

Places(k) == {i \in 1..Len(out) : out[i].kind = k}
PreviewTables == {Elem("table", "Preview competitors data"),
                  Elem("table", "Preview Andok's branches data")}

DashboardHead == IF widgets.dashboard_choice = "Site Selection"
                 THEN Elem("subheader", "Site Selection")
                 ELSE Elem("subheader", "Monthly Sales")

\* the parts of C6 that do not speak of the tables' places: one dashboard per
\* run, Site Selection in the first; a map only after every loader returned;
\* no map and no table, and a warning, when the filter leaves nothing
OneDashboard ==
    /\ run = 1 => widgets.dashboard_choice = "Site Selection"
    /\ \A e \in Range(out) :
          (e.kind = "subheader" /\ e.what \in {"Site Selection", "Monthly Sales"})
             => e = DashboardHead
    /\ \A e \in Range(out) : e.kind = "map" => e.what = widgets.dashboard_choice
    /\ view.stage # "none" => Cardinality({i \in 1..Len(out) : out[i] = DashboardHead}) = 1
    /\ Places("map") # {} => \A l \in Loaders : received[l].hit
    /\ Cardinality(Places("map")) <= 1

NothingToShow ==
    \/ /\ view.stage = "site"
       /\ Filtered(gdf_barangays, widgets.selected_city) = <<>>
    \/ /\ view.stage = "sales"
       /\ FilteredSales(df_monthly_sales, widgets.selected_year,
                        widgets.selected_month) = <<>>

WarnsOnly ==
    NothingToShow =>
        /\ Places("map") = {} /\ Places("table") = {}
        /\ out[Len(out)].kind = "warning"

\* C6 as stated: one dashboard per run; no map before all loaders returned; no
\* table before the map of the run; a warning and neither map nor table when
\* the filtered data is empty.
C6_PipelineAsStated ==
    /\ OneDashboard
    /\ WarnsOnly
    /\ \A i \in Places("table") : \E j \in Places("map") : j < i

\* C6 amended: as stated, except that the tables that never come before the map
\* are the summary, ranking and sales tables: Site Selection renders the
\* previews of the competitors and branches tables (each only when the table is
\* non-empty) before its map.
C6_Pipeline ==
    /\ OneDashboard
    /\ WarnsOnly
    /\ \A i \in Places("table") :
          IF out[i] \in PreviewTables
          THEN /\ widgets.dashboard_choice = "Site Selection"
               /\ \A j \in Places("map") : i < j
               /\ out[i].what = "Preview competitors data"
                     => Len(df_competitors.rows) > 0
               /\ out[i].what = "Preview Andok's branches data"
                     => Len(df_branches.rows) > 0
          ELSE \E j \in Places("map") : j < i

\* A Site Selection run with a preview above its map and two tables below it.
C6_Witness ==
    /\ pc = "done"
    /\ \E i \in Places("table"), j \in Places("map"), k \in Places("table") :
          i < j /\ j < k /\ out[i] \in PreviewTables

-----------------------------------------------------------------------------
(* C7 *)

Unusable == \/ IsEmpty(gdf_muni)
            \/ "MUNICIPAL_clean" \notin gdf_muni.cols
            \/ IsEmpty(df_monthly_sales)

\* C7: a Monthly Sales run whose municipality table or sales table is not
\* usable (empty, or without the MUNICIPAL_clean column that a shapefile
\* without 'MUNICIPAL' leaves out) ends with the warning that the data are not
\* available and a stop, and never reaches the join.
C7_Guard ==
    (view.stage \in {"sales", "sales_unavailable"} /\ Unusable) =>
        /\ pc = "stopped"
        /\ out[Len(out)] = Elem("warning",
              "Municipality boundaries or monthly sales data are not available.")
        /\ Elem("exception", "merge") \notin Range(out)

====
